---- MODULE Spec2Model ----
\* The problem panel of lapce-ui (src/lapce-ui/src/problem.rs): one
\* ProblemContent widget per severity, which builds a filtered index of the
\* diagnostics (items), sizes itself (layout), paints the visible part
\* (paint) and maps a click to a command (mouse_down).
\*
\* Abstractions: a path is a natural number ordered by <, a message is its
\* number of lines (what str::lines().count() returns), a Position is a
\* natural number, pixels are natural numbers (the f64 values the code uses
\* are only ever floored).
EXTENDS Integers, Sequences, FiniteSets, TLC

\* ------------------------------------------------------------------ bounds
MaxDiags == 2
\* paint is asked for the region [y0, y0 + ViewHeight], y0 = s * ScrollStep
\* for s in 0..MaxScroll; ViewHeight is also the height the container offers.
MaxScroll == 3
ScrollStep == 25
ViewHeight == 50

\* ------------------------------------------------------------------ data
\* The files diagnostics are published for; PathBuf's order is <.
Paths == {1, 2}

\* ProblemContent::new: self.line_height, used by mouse_down only.
line_height == 25

\* data.config.editor.line_height, used by layout and paint.
LineHeights == {20, 25}

Severities == {"Error", "Warning"}

Uri(scheme, path) == [scheme |-> scheme, path |-> path]

\* Url::to_file_path: Ok(path) for a file URI, Err(()) for any other scheme.
to_file_path(uri) ==
    IF uri.scheme = "file"
    THEN [ok |-> TRUE, path |-> uri.path]
    ELSE [ok |-> FALSE, path |-> 0]

Related(uri, message, start) ==
    [location |-> [uri |-> uri, range_start |-> start], message |-> message]

Diagnostic(severity, message, start, related) ==
    [severity |-> severity, message |-> message, range_start |-> start,
     related_information |-> related]

\* span(related) = message lines + 1 header line (spec.md section 3).
RelatedSpan(r) == r.message + 1

RECURSIVE RelatedSpanSum(_, _)
RelatedSpanSum(rs, k) ==
    IF k > Len(rs) THEN 0 ELSE RelatedSpan(rs[k]) + RelatedSpanSum(rs, k + 1)

\* span(diagnostic) = message lines + sum of span(related) (spec.md section 3):
\* the value stored in EditorDiagnostic.lines where the diagnostic is received.
DiagnosticSpan(diagnostic) ==
    diagnostic.message + RelatedSpanSum(diagnostic.related_information, 1)

EditorDiagnostic(diagnostic) ==
    [lines |-> DiagnosticSpan(diagnostic), diagnostic |-> diagnostic]

\* The diagnostics a language server reports for a file, in source order: a
\* warning, an error without related information, an error with a two-line
\* message and one related entry, an error with two related entries, the
\* second of which points at a document that is no file.
Pool ==
    << EditorDiagnostic(Diagnostic("Warning", 1, 11, <<>>)),
       EditorDiagnostic(Diagnostic("Error", 1, 12, <<>>)),
       EditorDiagnostic(Diagnostic("Error", 2, 13,
            << Related(Uri("file", 2), 1, 21) >>)),
       EditorDiagnostic(Diagnostic("Error", 1, 14,
            << Related(Uri("file", 1), 2, 22),
               Related(Uri("untitled", 0), 1, 23) >>)) >>

\* What may be published for one file: up to MaxDiags consecutive diagnostics.
DiagLists ==
    { <<>> } \cup
    { SubSeq(Pool, w[1], w[2]) :
        w \in { v \in (1..Len(Pool)) \X (1..Len(Pool)) :
                  v[1] <= v[2] /\ v[2] - v[1] < MaxDiags } }

VARIABLES
    diagnostics,        \* data.main_split.diagnostics: path -> list (<<>>: none)
    collapsed,          \* data.problem.collapsed (a path it lacks: FALSE)
    severity,           \* self.severity
    editor_line_height, \* data.config.editor.line_height
    content_height,     \* self.content_height
    mouse_pos,          \* self.mouse_pos.y
    layout_requested,   \* ctx.request_layout() was called and layout has not run
    out                 \* what the last handler did

vars == << diagnostics, collapsed, severity, editor_line_height,
           content_height, mouse_pos, layout_requested, out >>

\* ------------------------------------------------------------------ items
RECURSIVE sorted_by_key(_)
sorted_by_key(S) ==
    IF S = {} THEN <<>>
    ELSE LET m == CHOOSE x \in S : \A y \in S : x.path <= y.path
         IN  <<m>> \o sorted_by_key(S \ {m})

filter(list, sev) ==
    SelectSeq(list, LAMBDA d : d.diagnostic.severity = sev)

\* Mutant of filter_map: a file whose diagnostics all have another severity
\* keeps an empty group.
filter_map_keeping_empty(diags, sev) ==
    { [path |-> p, diagnostics |-> filter(diags[p], sev)] :
        p \in { q \in DOMAIN diags : diags[q] # <<>> } }

filter_map(diags, sev) ==
    { [path |-> p, diagnostics |-> filter(diags[p], sev)] :
        p \in { q \in DOMAIN diags : filter(diags[q], sev) # <<>> } }

items(diags, sev) == sorted_by_key(filter_map(diags, sev))

is_collapsed(coll, path) ==
    IF path \in DOMAIN coll THEN coll[path] ELSE FALSE

\* diagnostics.iter().map(|d| d.lines).sum::<usize>()
RECURSIVE sum_lines(_, _)
sum_lines(ds, j) ==
    IF j > Len(ds) THEN 0 ELSE ds[j].lines + sum_lines(ds, j + 1)

\* ------------------------------------------------------------- mouse_down
\* What one call of mouse_down ends with: the command it submits, a logged
\* return without a command, or a panic (expect/unwrap on None/Err).
ToggleProblem(path) ==
    [kind |-> "ToggleProblem", path |-> path, position |-> 0, log |-> ""]
JumpToLocation(path, position) ==
    [kind |-> "JumpToLocation", path |-> path, position |-> position, log |-> ""]
Return(log) == [kind |-> "return", path |-> 0, position |-> 0, log |-> log]
Panic(at) == [kind |-> "panic", path |-> 0, position |-> 0, log |-> at]

\* Mutant of mouse_down_offset: the collapse flag is not looked at.
mouse_down_offset_expanded(item, coll) ==
    sum_lines(item.diagnostics, 1) + 1

mouse_down_offset(item, coll) ==
    IF is_collapsed(coll, item.path)
    THEN 1
    ELSE sum_lines(item.diagnostics, 1) + 1

RECURSIVE skip_files(_, _, _, _, _)
skip_files(its, i, line_cursor, click_line, coll) ==
    IF i > Len(its) THEN [i |-> i, line_cursor |-> line_cursor]
    ELSE LET offset == mouse_down_offset(its[i], coll)
         IN  IF offset + line_cursor <= click_line
             THEN skip_files(its, i + 1, line_cursor + offset, click_line, coll)
             ELSE [i |-> i, line_cursor |-> line_cursor]

RECURSIVE skip_diagnostics(_, _, _, _)
skip_diagnostics(ds, j, line_cursor, click_line) ==
    IF j > Len(ds) THEN [j |-> j, line_cursor |-> line_cursor]
    ELSE IF line_cursor + ds[j].lines < click_line
         THEN skip_diagnostics(ds, j + 1, line_cursor + ds[j].lines, click_line)
         ELSE [j |-> j, line_cursor |-> line_cursor]

RECURSIVE skip_related(_, _, _, _)
skip_related(rs, k, line_cursor, click_line) ==
    IF k > Len(rs) THEN [k |-> k, line_cursor |-> line_cursor]
    ELSE LET lines == rs[k].message + 1
         IN  IF line_cursor <= click_line /\ click_line <= line_cursor + lines
             THEN [k |-> k, line_cursor |-> line_cursor]
             ELSE skip_related(rs, k + 1, line_cursor + lines, click_line)

jump_related(rs, line_cursor, click_line) ==
    LET r == skip_related(rs, 1, line_cursor, click_line)
    IN  IF r.k > Len(rs) THEN Panic("line 207")
        ELSE LET related == rs[r.k]
                 path == to_file_path(related.location.uri)
             IN  IF ~path.ok THEN Panic("line 212")
                 ELSE JumpToLocation(path.path, related.location.range_start)

jump_diagnostic(path, ds, header_line, click_line, is_hot) ==
    LET s == skip_diagnostics(ds, 1, header_line, click_line)
    IN  IF s.j > Len(ds) THEN Panic("line 160")
        ELSE IF s.line_cursor > click_line THEN Return("error")
        ELSE LET file_diagnostic == ds[s.j]
                 msg_lines == file_diagnostic.diagnostic.message
             IN  IF is_hot /\ s.line_cursor <= click_line
                           /\ click_line < s.line_cursor + msg_lines
                 THEN JumpToLocation(path, file_diagnostic.diagnostic.range_start)
                 ELSE jump_related(
                          file_diagnostic.diagnostic.related_information,
                          s.line_cursor + msg_lines, click_line)

mouse_down(diags, coll, sev, y, is_hot) ==
    LET click_line == y \div line_height
        its == items(diags, sev)
        f == skip_files(its, 1, 0, click_line, coll)
    IN  IF f.i > Len(its) THEN Panic("line 125")
        ELSE IF f.line_cursor = click_line THEN ToggleProblem(its[f.i].path)
        ELSE IF is_collapsed(coll, its[f.i].path) THEN Return("warn")
        ELSE jump_diagnostic(its[f.i].path, its[f.i].diagnostics,
                             f.line_cursor, click_line, is_hot)

\* ------------------------------------------------------------------ layout
\* Mutant of layout_file_lines: the file name header is not counted.
layout_file_lines_no_header(item, coll) ==
    IF is_collapsed(coll, item.path)
    THEN 1
    ELSE sum_lines(item.diagnostics, 1)

\* Mutant of layout_file_lines: the collapse flag is not looked at.
layout_file_lines_expanded(item, coll) ==
    sum_lines(item.diagnostics, 1) + 1

layout_file_lines(item, coll) ==
    IF is_collapsed(coll, item.path)
    THEN 1
    ELSE sum_lines(item.diagnostics, 1) + 1

RECURSIVE sum_file_lines(_, _, _)
sum_file_lines(its, i, coll) ==
    IF i > Len(its) THEN 0
    ELSE layout_file_lines(its[i], coll) + sum_file_lines(its, i + 1, coll)

layout_lines(diags, coll, sev) == sum_file_lines(items(diags, sev), 1, coll)

\* ------------------------------------------------------------------- paint
\* One draw instruction (draw_svg, draw_text or fill): what it shows, for which
\* file, diagnostic d of the group, related entry r and message line l (0: not
\* applicable), and the flat line it is placed at (y = line_height * line).
Draw(kind, path, d, r, l, line, lh) ==
    [kind |-> kind, path |-> path, d |-> d, r |-> r, l |-> l,
     line |-> line, y |-> lh * line]

\* Mutant of paint_related_lines: the header line of a related entry is not
\* counted.
RECURSIVE paint_related_lines_no_header(_, _)
paint_related_lines_no_header(rs, k) ==
    IF k > Len(rs) THEN 0
    ELSE rs[k].message + paint_related_lines_no_header(rs, k + 1)

\* r.iter().map(|r| r.message.lines().count() + 1).sum()
RECURSIVE paint_related_lines(_, _)
paint_related_lines(rs, k) ==
    IF k > Len(rs) THEN 0
    ELSE rs[k].message + 1 + paint_related_lines(rs, k + 1)

\* for related in d.diagnostic.related_information
RECURSIVE paint_related(_, _, _, _, _, _)
paint_related(path, j, rs, k, current_line, c) ==
    IF k > Len(rs) THEN [current_line |-> current_line, draws |-> {}]
    ELSE LET cl == current_line + 1
             lines == rs[k].message + 1
             fill == IF c.is_hot /\ c.mouse_line >= cl
                                 /\ c.mouse_line < cl + lines
                     THEN {Draw("fill", path, j, k, 0, cl, c.lh)}
                     ELSE {}
             head == {Draw("link_svg", path, j, k, 0, cl, c.lh),
                      Draw("related_header", path, j, k, 0, cl, c.lh)}
             text == {Draw("related_line", path, j, k, l, cl + l, c.lh) :
                        l \in 1..rs[k].message}
             rest == paint_related(path, j, rs, k + 1,
                                   cl + rs[k].message, c)
         IN  [current_line |-> rest.current_line,
              draws |-> fill \cup head \cup text \cup rest.draws]

\* Mutant of paint_diagnostics: a diagnostic is culled when its first row is
\* above min, whatever the rows after it.
RECURSIVE paint_diagnostics_culled_by_start(_, _, _, _, _)
paint_diagnostics_culled_by_start(path, ds, j, current_line, c) ==
    IF j > Len(ds)
    THEN [current_line |-> current_line, draws |-> {}, returned |-> FALSE]
    ELSE IF current_line > c.max
    THEN [current_line |-> current_line, draws |-> {}, returned |-> TRUE]
    ELSE LET d == ds[j]
             msg_lines == d.diagnostic.message
             related_lines ==
                 paint_related_lines(d.diagnostic.related_information, 1)
         IN  IF current_line + 1 < c.min
             THEN paint_diagnostics_culled_by_start(path, ds, j + 1,
                      current_line + msg_lines + related_lines, c)
             ELSE
             LET svg == {Draw("severity_svg", path, j, 0, 0,
                              current_line + 1, c.lh)}
                 text == {Draw("message_line", path, j, 0, l,
                               current_line + l, c.lh) : l \in 1..msg_lines}
                 rel == paint_related(path, j,
                            d.diagnostic.related_information, 1,
                            current_line + msg_lines, c)
                 rest == paint_diagnostics_culled_by_start(path, ds, j + 1,
                                           rel.current_line, c)
             IN  [current_line |-> rest.current_line,
                  draws |-> svg \cup text \cup rel.draws \cup rest.draws,
                  returned |-> rest.returned]

\* for d in diagnostics
RECURSIVE paint_diagnostics(_, _, _, _, _)
paint_diagnostics(path, ds, j, current_line, c) ==
    IF j > Len(ds)
    THEN [current_line |-> current_line, draws |-> {}, returned |-> FALSE]
    ELSE IF current_line > c.max
    THEN [current_line |-> current_line, draws |-> {}, returned |-> TRUE]
    ELSE LET d == ds[j]
             msg_lines == d.diagnostic.message
             related_lines ==
                 paint_related_lines(d.diagnostic.related_information, 1)
         IN  IF current_line + 1 + msg_lines + related_lines < c.min
             THEN paint_diagnostics(path, ds, j + 1,
                      current_line + msg_lines + related_lines, c)
             ELSE
             LET fill == IF c.is_hot /\ current_line < c.mouse_line
                            /\ c.mouse_line < current_line + 1 + msg_lines
                         THEN {Draw("fill", path, j, 0, 0,
                                    current_line + 1, c.lh)}
                         ELSE {}
                 svg == {Draw("severity_svg", path, j, 0, 0,
                              current_line + 1, c.lh)}
                 text == {Draw("message_line", path, j, 0, l,
                               current_line + l, c.lh) : l \in 1..msg_lines}
                 rel == paint_related(path, j,
                            d.diagnostic.related_information, 1,
                            current_line + msg_lines, c)
                 rest == paint_diagnostics(path, ds, j + 1,
                                           rel.current_line, c)
             IN  [current_line |-> rest.current_line,
                  draws |-> fill \cup svg \cup text \cup rel.draws
                            \cup rest.draws,
                  returned |-> rest.returned]

\* for (path, diagnostics) in items. cursor records current_line at the start
\* of each iteration the loop reaches. (The dimmed folder label is drawn only
\* for a path with a parent directory; the paths modelled have none.)
RECURSIVE paint_files(_, _, _, _, _)
paint_files(its, i, current_line, coll, c) ==
    IF i > Len(its) THEN [draws |-> {}, cursor |-> {}]
    ELSE
    LET path == its[i].path
        here == {[path |-> path, line |-> current_line]}
        diagnostics_len == sum_lines(its[i].diagnostics, 1)
    IN  IF ~is_collapsed(coll, path)
           /\ diagnostics_len + 1 + current_line < c.min
        THEN LET rest == paint_files(its, i + 1,
                             current_line + diagnostics_len + 1, coll, c)
             IN  [draws |-> rest.draws, cursor |-> here \cup rest.cursor]
        ELSE
        LET head == {Draw("file_svg", path, 0, 0, 0, current_line, c.lh),
                     Draw("file_name", path, 0, 0, 0, current_line, c.lh)}
        IN  IF is_collapsed(coll, path)
            THEN LET rest == paint_files(its, i + 1, current_line + 1, coll, c)
                 IN  [draws |-> head \cup rest.draws,
                      cursor |-> here \cup rest.cursor]
            ELSE
            LET ds == paint_diagnostics(path, its[i].diagnostics, 1,
                                        current_line, c)
            IN  IF ds.returned
                THEN [draws |-> head \cup ds.draws, cursor |-> here]
                ELSE LET rest == paint_files(its, i + 1,
                                     ds.current_line + 1, coll, c)
                     IN  [draws |-> head \cup ds.draws \cup rest.draws,
                          cursor |-> here \cup rest.cursor]

paint(diags, coll, sev, lh, mouse_y, y0, y1, is_hot) ==
    LET c == [lh |-> lh, is_hot |-> is_hot,
              mouse_line |-> mouse_y \div lh,
              min |-> y0 \div lh,
              max |-> (y1 \div lh) + 2]
        p == paint_files(items(diags, sev), 1, 0, coll, c)
    IN  [draws |-> p.draws, cursor |-> p.cursor, min |-> c.min, max |-> c.max]

\* ----------------------------------------------------------------- actions
Max(a, b) == IF a >= b THEN a ELSE b

\* Pointer positions the events carry.
MouseYs == {40}
ClickOffsets == {12}
ClickYs(height) ==
    { y \in { l * line_height + o : l \in 0..(height \div line_height),
                                    o \in ClickOffsets } : y < height }

\* The height layout returns: self.content_height.max(bc.max().height).
widget_height == Max(content_height, ViewHeight)

\* mouse_down submitted ToggleProblem and the command is not handled yet.
CommandPending == out.op = "mouse_down" /\ out.result.kind = "ToggleProblem"

\* A panic aborts the process.
Crashed == out.op = "mouse_down" /\ out.result.kind = "panic"

\* The event loop takes the next event once commands are handled and the
\* requested layout pass has run.
Idle == ~Crashed /\ ~CommandPending /\ ~layout_requested

\* Widget::update: whether it calls ctx.request_layout().
update(old_diagnostics, new_diagnostics) == new_diagnostics # old_diagnostics

Init ==
    /\ diagnostics = [p \in Paths |-> <<>>]
    /\ collapsed = [p \in Paths |-> FALSE]
    /\ severity \in Severities
    /\ editor_line_height \in LineHeights
    /\ content_height = 0
    /\ mouse_pos = 0
    /\ layout_requested = TRUE
    /\ out = [op |-> "new"]

\* The diagnostics of one file are replaced; the widget's update follows.
DiagnosticsChanged(path, list) ==
    /\ Idle
    /\ list # diagnostics[path]
    /\ diagnostics' = [diagnostics EXCEPT ![path] = list]
    /\ layout_requested' =
           (layout_requested \/ update(diagnostics, diagnostics'))
    /\ out' = [op |-> "update",
               request_layout |-> update(diagnostics, diagnostics')]
    /\ UNCHANGED << collapsed, severity, editor_line_height, content_height,
                    mouse_pos >>

\* The owner of data.problem.collapsed handles the ToggleProblem command that
\* mouse_down submitted; the widget's update follows.
toggle(coll, path) ==
    [p \in DOMAIN coll \cup {path} |->
        IF p = path THEN ~is_collapsed(coll, path) ELSE coll[p]]

ToggleProblemHandled ==
    /\ CommandPending
    /\ collapsed' = toggle(collapsed, out.result.path)
    /\ layout_requested' =
           (layout_requested \/ update(diagnostics, diagnostics))
    /\ out' = [op |-> "toggle_problem", path |-> out.result.path,
               request_layout |-> update(diagnostics, diagnostics)]
    /\ UNCHANGED << diagnostics, severity, editor_line_height, content_height,
                    mouse_pos >>

\* Event::MouseMove
MouseMove(y) ==
    /\ Idle
    /\ mouse_pos' = y
    /\ out' = [op |-> "mouse_move",
               cursor |-> IF y < content_height THEN "Pointer" ELSE "clear",
               request_paint |-> TRUE]
    /\ UNCHANGED << diagnostics, collapsed, severity, editor_line_height,
                    content_height, layout_requested >>

\* Event::MouseDown
MouseDown(y, is_hot) ==
    /\ Idle
    /\ out' = [op |-> "mouse_down", y |-> y, is_hot |-> is_hot,
               click_line |-> y \div line_height,
               result |-> mouse_down(diagnostics, collapsed, severity,
                                     y, is_hot)]
    /\ UNCHANGED << diagnostics, collapsed, severity, editor_line_height,
                    content_height, mouse_pos, layout_requested >>

\* Widget::layout
Layout ==
    /\ ~Crashed /\ ~CommandPending
    /\ content_height' =
           editor_line_height * layout_lines(diagnostics, collapsed, severity)
    /\ layout_requested' = FALSE
    /\ out' = [op |-> "layout",
               lines |-> layout_lines(diagnostics, collapsed, severity),
               height |-> Max(content_height', ViewHeight)]
    /\ UNCHANGED << diagnostics, collapsed, severity, editor_line_height,
                    mouse_pos >>

\* Widget::paint
Paint(y0, is_hot) ==
    /\ Idle
    /\ out' = [op |-> "paint", is_hot |-> is_hot,
               paint |-> paint(diagnostics, collapsed, severity,
                               editor_line_height, mouse_pos,
                               y0, y0 + ViewHeight, is_hot)]
    /\ UNCHANGED << diagnostics, collapsed, severity, editor_line_height,
                    content_height, mouse_pos, layout_requested >>

Next ==
    \/ \E path \in Paths, list \in DiagLists : DiagnosticsChanged(path, list)
    \/ ToggleProblemHandled
    \/ \E y \in MouseYs : MouseMove(y)
    \/ \E y \in ClickYs(widget_height), is_hot \in BOOLEAN : MouseDown(y, is_hot)
    \/ Layout
    \/ \E s \in 0..MaxScroll, is_hot \in BOOLEAN : Paint(s * ScrollStep, is_hot)

Spec == Init /\ [][Next]_vars

\* ------------------------------------------------------------- properties
\* The index the handlers build in the current state.
Index == items(diagnostics, severity)

Position(path) == CHOOSE i \in 1..Len(Index) : Index[i].path = path

\* spec.md section 3: span(diagnostic) summed over a group.
RECURSIVE GroupSpan(_, _)
GroupSpan(ds, j) ==
    IF j > Len(ds) THEN 0
    ELSE DiagnosticSpan(ds[j].diagnostic) + GroupSpan(ds, j + 1)

\* spec.md section 3: span(file) = 1 if collapsed, else 1 + sum of the spans.
FileSpan(item) ==
    IF is_collapsed(collapsed, item.path) THEN 1
    ELSE 1 + GroupSpan(item.diagnostics, 1)

RECURSIVE SpanBefore(_)
SpanBefore(i) == IF i <= 1 THEN 0 ELSE FileSpan(Index[i - 1]) + SpanBefore(i - 1)

\* The flat line of the header of the i-th file of the index.
HeaderLine(i) == SpanBefore(i)

TotalSpan == SpanBefore(Len(Index) + 1)

\* What paint draws when the whole content is visible and nothing is hovered.
FullPaint ==
    paint(diagnostics, collapsed, severity, editor_line_height, mouse_pos,
          0, editor_line_height * TotalSpan, FALSE)

\* The flat lines on which paint draws instructions of the given kinds for
\* diagnostic d (and related entry r) of the file.
Rows(kinds, path, d, r) ==
    { dr.line : dr \in { x \in FullPaint.draws :
                           /\ x.kind \in kinds /\ x.path = path
                           /\ x.d = d /\ x.r = r } }

Clicked == out.op = "mouse_down"

\* C1: a click never aborts the process: whatever the index, the collapse
\* state and the clicked line, mouse_down ends with ToggleProblem, with
\* JumpToLocation or with a logged return, never with a panic.
C1_MouseDownNeverPanics ==
    Clicked => out.result.kind \in {"ToggleProblem", "JumpToLocation", "return"}

\* C2: while the widget is hot, a click on any row on which paint draws a
\* line of the message of diagnostic d of an expanded file jumps to the start
\* of d's range in that file.
C2_MessageRowsJumpToDiagnostic ==
    (Clicked /\ out.is_hot) =>
        \A i \in 1..Len(Index) :
            ~is_collapsed(collapsed, Index[i].path) =>
                \A j \in 1..Len(Index[i].diagnostics) :
                    out.click_line \in Rows({"message_line"}, Index[i].path, j, 0)
                    => out.result =
                           JumpToLocation(Index[i].path,
                               Index[i].diagnostics[j].diagnostic.range_start)

\* C3: a click on the header line of file f, the sum of the spans of the
\* files before f under the current collapse state, submits exactly
\* ToggleProblem(path of f).
C3_HeaderClickToggles ==
    Clicked =>
        \A i \in 1..Len(Index) :
            out.click_line = HeaderLine(i)
            => out.result = ToggleProblem(Index[i].path)

C3_Witness ==
    /\ Clicked
    /\ Len(Index) = 2
    /\ is_collapsed(collapsed, Index[1].path)
    /\ GroupSpan(Index[1].diagnostics, 1) > 1
    /\ out.click_line = 1
    /\ out.result = ToggleProblem(Index[2].path)

\* C4: a click on any row of related entry r of diagnostic d of an expanded
\* file (its header row or one of its message rows) jumps to r's location.
C4_RelatedRowsJumpToRelated ==
    Clicked =>
        \A i \in 1..Len(Index) :
            ~is_collapsed(collapsed, Index[i].path) =>
                \A j \in 1..Len(Index[i].diagnostics) :
                    LET rs == Index[i].diagnostics[j].diagnostic.related_information
                    IN  \A k \in 1..Len(rs) :
                            out.click_line \in
                                Rows({"related_header", "related_line"},
                                     Index[i].path, j, k)
                            => out.result =
                                   JumpToLocation(
                                       to_file_path(rs[k].location.uri).path,
                                       rs[k].location.range_start)

Matching(path) ==
    { n \in 1..Len(diagnostics[path]) :
        diagnostics[path][n].diagnostic.severity = severity }

\* C6: the index is the filtered view of the diagnostics: a file is in it if
\* and only if one of its diagnostics has the widget's severity, its group is
\* exactly those diagnostics in source order, and the groups are in strictly
\* ascending path order.
C6_IndexIsFilteredView ==
    /\ { Index[i].path : i \in 1..Len(Index) } =
           { p \in Paths : Matching(p) # {} }
    /\ \A i \in 1..Len(Index) : \A h \in 1..Len(Index) :
           i < h => Index[i].path < Index[h].path
    /\ \A i \in 1..Len(Index) :
           LET group == Index[i].diagnostics
               m == Matching(Index[i].path)
           IN  /\ Len(group) = Cardinality(m)
               /\ \A n \in m :
                      group[Cardinality({ q \in m : q <= n })] =
                          diagnostics[Index[i].path][n]

C6_Witness ==
    /\ out.op = "layout"
    /\ Len(Index) = 2
    /\ \E i \in 1..2 :
           /\ Len(Index[i].diagnostics) = 2
           /\ Len(diagnostics[Index[i].path]) = 2
    /\ \E i \in 1..2 :
           Len(Index[i].diagnostics) < Len(diagnostics[Index[i].path])

\* C7: paint emits no draw instruction for a file group (collapsed or
\* expanded) whose whole span lies above min_line or below max_line, and
\* still advances the line cursor by the full span of a group above min_line.
C7_NoDrawOutsideVisibleRange ==
    out.op = "paint" =>
        \A i \in 1..Len(Index) :
            LET first == HeaderLine(i)
                last == HeaderLine(i) + FileSpan(Index[i]) - 1
            IN  /\ (last < out.paint.min \/ first > out.paint.max)
                   => ~\E dr \in out.paint.draws : dr.path = Index[i].path
                /\ (last < out.paint.min /\ i < Len(Index))
                   => [path |-> Index[i + 1].path, line |-> last + 1]
                          \in out.paint.cursor

\* The line count layout computes in the current state, and the part of it
\* that the file contributes.
TotalLines == layout_lines(diagnostics, collapsed, severity)

Contribution(path, coll) == layout_file_lines(Index[Position(path)], coll)

\* C8: when file f is toggled to collapsed it contributes exactly 1 to the
\* line count layout computes and the count drops by the rest of its former
\* contribution; a toggle leaves every other file's contribution unchanged;
\* toggling f again gives back the count there was before the toggle.
C8_CollapseContributesOne ==
    [][ out'.op = "toggle_problem" =>
          LET f == out.result.path
          IN  /\ Index' = Index
              /\ \A i \in 1..Len(Index) :
                     Index[i].path # f =>
                         Contribution(Index[i].path, collapsed') =
                             Contribution(Index[i].path, collapsed)
              /\ is_collapsed(collapsed', f) =>
                     /\ ~is_collapsed(collapsed, f)
                     /\ Contribution(f, collapsed') = 1
                     /\ TotalLines' = TotalLines - Contribution(f, collapsed) + 1
              /\ layout_lines(diagnostics', toggle(collapsed', f), severity')
                     = TotalLines
      ]_vars

C8_Witness ==
    /\ out.op = "toggle_problem"
    /\ is_collapsed(collapsed, out.path)
    /\ Len(Index) = 2
    /\ out.path = Index[1].path
    /\ GroupSpan(Index[1].diagnostics, 1) > 4
    /\ ~is_collapsed(collapsed, Index[2].path)
    /\ TotalLines > 2

\* The sum of the per-file line counts layout adds up for the files before
\* the i-th one.
LayoutLinesBefore(i) == sum_file_lines(SubSeq(Index, 1, i - 1), 1, collapsed)

\* C9: sizing, painting and hit-testing agree on every span: paint reaches
\* and draws the header of a file at the flat line that is the sum of the
\* line counts layout adds up for the files before it, a click on that line
\* is resolved by mouse_down to ToggleProblem of that file, and the stored
\* line count of every diagnostic that layout and mouse_down use is the
\* message lines plus the related lines paint advances by.
C9_SizerPainterHitTesterAgree ==
    out.op = "paint" =>
        /\ \A c \in out.paint.cursor :
               c.line = LayoutLinesBefore(Position(c.path))
        /\ \A dr \in out.paint.draws :
               dr.kind = "file_name" =>
                   /\ dr.line = LayoutLinesBefore(Position(dr.path))
                   /\ mouse_down(diagnostics, collapsed, severity,
                                 dr.line * line_height, TRUE)
                          = ToggleProblem(dr.path)
        /\ \A i \in 1..Len(Index) : \A j \in 1..Len(Index[i].diagnostics) :
               LET d == Index[i].diagnostics[j]
               IN  d.lines = d.diagnostic.message +
                       paint_related_lines(d.diagnostic.related_information, 1)

C9_Witness ==
    /\ out.op = "paint"
    /\ Len(Index) = 2
    /\ out.paint.min > 0
    /\ ~is_collapsed(collapsed, Index[1].path)
    /\ \E j \in 1..Len(Index[1].diagnostics) :
           Index[1].diagnostics[j].diagnostic.related_information # <<>>
    /\ \E dr \in out.paint.draws :
           /\ dr.kind = "file_name"
           /\ dr.path = Index[2].path
           /\ dr.line > 2

\* C10: whenever the diagnostics changed or a collapse flag was toggled the
\* widget's update requested a layout pass, so that when the next pointer
\* event can be taken the cached content height is total_lines * line_height
\* for the current diagnostics and collapse state.
C10_RelayoutBeforePointerEvent ==
    /\ out.op \in {"update", "toggle_problem"} => layout_requested
    /\ Idle => content_height = TotalLines * editor_line_height

\* C11: a click is mapped to a flat line with the line height sizing and
\* painting use: for a click at pixel y inside the content, the click_line
\* mouse_down computes is the flat line of the row paint draws at y,
\* floor(y / data.config.editor.line_height).
C11_ClickLineIsPaintedRow ==
    (Clicked /\ out.y < TotalLines * editor_line_height) =>
        out.click_line = out.y \div editor_line_height

\* The rows of the flattened view and their flat lines, from the spans of
\* spec.md section 3: the header of every file and, for an expanded file, the
\* message lines of each diagnostic and the header and message lines of each
\* of its related entries.
Row(kind, path, d, r, l, line) ==
    [kind |-> kind, path |-> path, d |-> d, r |-> r, l |-> l, line |-> line]

RelatedRows(path, j, rs, first) ==
    UNION { LET head == first + RelatedSpanSum(SubSeq(rs, 1, k - 1), 1)
            IN  {Row("related_header", path, j, k, 0, head)} \cup
                {Row("related_line", path, j, k, l, head + l) :
                    l \in 1..rs[k].message}
          : k \in 1..Len(rs) }

DiagnosticRows(path, ds, header) ==
    UNION { LET before == header + GroupSpan(SubSeq(ds, 1, j - 1), 1)
                d == ds[j].diagnostic
            IN  {Row("message_line", path, j, 0, l, before + l) :
                    l \in 1..d.message} \cup
                RelatedRows(path, j, d.related_information,
                            before + d.message + 1)
          : j \in 1..Len(ds) }

ViewRows ==
    UNION { {Row("file_name", Index[i].path, 0, 0, 0, HeaderLine(i))} \cup
            (IF is_collapsed(collapsed, Index[i].path) THEN {}
             ELSE DiagnosticRows(Index[i].path, Index[i].diagnostics,
                                 HeaderLine(i)))
          : i \in 1..Len(Index) }

Drawn(row) ==
    \E dr \in out.paint.draws :
        /\ dr.kind = row.kind /\ dr.path = row.path
        /\ dr.d = row.d /\ dr.r = row.r /\ dr.l = row.l
        /\ dr.line = row.line
        /\ dr.y = row.line * editor_line_height

\* C12: culling and the early stop never drop a visible row: paint emits the
\* draw instruction of every row (file header, message line, related header,
\* related message line) whose flat line lies in [min_line, max_line], at
\* vertical position flat line * line_height.
C12_VisibleRowsAreDrawn ==
    out.op = "paint" =>
        \A row \in ViewRows :
            (out.paint.min <= row.line /\ row.line <= out.paint.max)
            => Drawn(row)

C12_Witness ==
    /\ out.op = "paint"
    /\ \E row \in ViewRows :
           /\ row.kind = "message_line"
           /\ row.line < out.paint.min
           /\ ~Drawn(row)
    /\ \E row \in ViewRows :
           /\ row.kind = "related_line"
           /\ out.paint.min <= row.line /\ row.line <= out.paint.max
           /\ Drawn(row)
    /\ \E row \in ViewRows : row.line > out.paint.max /\ ~Drawn(row)

====
